---- MODULE Spec2Model ----
(***************************************************************************)
(* Two-phase application workflow of salsabil (src/models.py) over the      *)
(* SQLite store declared in src/database.py.                                *)
(*                                                                          *)
(* Every call of models.py opens its own connection (get_db_connection).    *)
(* Python's sqlite3 opens a transaction implicitly before the first UPDATE  *)
(* or INSERT of a connection and keeps it open until commit(); SQLite       *)
(* admits one write transaction at a time.  db is the committed content of  *)
(* the applications table (what any other connection reads), tx is the      *)
(* content as seen by the connection that holds the write lock.             *)
(***************************************************************************)
EXTENDS Integers, Sequences, FiniteSets, TLC

\* ---- bounds of the model ----
MaxApps == 1      \* applications that are ever created
MaxCalls == 3     \* calls of models.py that are ever started
MaxTime == 1      \* last instant of the clock

\* Request handlers, each call with its own connection.  One HR user acts
\* at a time in Spec (Callers); SpecConcurrent lets both act at once.
Procs == {1, 2}
Callers == {1}

\* ---- values ----
NULL == "NULL"          \* SQL NULL / Python None in a TEXT column
NULLDATE == -1          \* SQL NULL in a timestamp column
NoFile == <<>>          \* SQL NULL in a filename column

AppIds == 1..MaxApps
Decisions == {"selected_for_interview", "rejected", "accepted"}
InterviewDates == {NULL, "2025-10-15T14:00"}
RejectionReasons == {NULL, "insufficient experience"}
\* jobs.id of the posting applied to; 0 marks a spontaneous application
PostedJobs == {1}
JobIds == {0, 1}

VARIABLES
    db,       \* committed applications table: id -> row
    tx,       \* applications table as seen inside the open write transaction
    lock,     \* process holding SQLite's write lock, 0 when free
    call,     \* per process: the call in progress or the last one finished
    now,      \* datetime.now()
    files,    \* files present under static/convocations
    ncalls,   \* calls started so far
    verifications,  \* committed document_verifications table
    seq,      \* sqlite_sequence of applications: the last id handed out
    pdf       \* the last call of pdf_generator.py: arguments and outcome

vars == <<db, tx, lock, call, now, files, ncalls, verifications, seq, pdf>>

\* The tables and counters the phase-decision calls never touch.
registry == <<verifications, seq>>

\* Row inserted by create_application: the columns it does not name take
\* the defaults of the CREATE TABLE statement; job_id is overwritten with
\* the value passed.  acceptance_letter_pdf and is_favorite are columns
\* models.py writes that the CREATE TABLE statement does not declare: they
\* start empty (toggle_favorite treats NULL and 0 alike).
NewRow_shortlisted ==
    [ status |-> "en attente",
      workflow_phase |-> "phase2",
      phase1_status |-> "selected_for_interview",
      phase1_date |-> NULLDATE,
      phase1_notification_sent |-> 1,
      interview_date |-> NULL,
      interview_invitation_pdf |-> NoFile,
      phase2_status |-> "pending",
      phase2_date |-> NULLDATE,
      phase2_notification_sent |-> 0,
      rejection_reason |-> NULL,
      job_id |-> 0,
      interview_notes |-> NULL,
      acceptance_letter_pdf |-> NoFile,
      is_favorite |-> 0 ]

NewRow ==
    [ status |-> "en attente",
      workflow_phase |-> "phase1",
      phase1_status |-> "pending",
      phase1_date |-> NULLDATE,
      phase1_notification_sent |-> 0,
      interview_date |-> NULL,
      interview_invitation_pdf |-> NoFile,
      phase2_status |-> NULL,
      phase2_date |-> NULLDATE,
      phase2_notification_sent |-> 0,
      rejection_reason |-> NULL,
      job_id |-> 0,
      interview_notes |-> NULL,
      acceptance_letter_pdf |-> NoFile,
      is_favorite |-> 0 ]

\* No function of pdf_generator.py has been called yet.
NoCall == [fn |-> "none"]

IdleCall ==
    [ pc |-> "idle", op |-> "none", app_id |-> 0, decision |-> NULL,
      interview_date |-> NULL, rejection_reason |-> NULL,
      current_date |-> NULLDATE, result |-> "none", phase |-> 0 ]

Init ==
    /\ db = <<>>
    /\ tx = <<>>
    /\ lock = 0
    /\ call = [p \in Procs |-> IdleCall]
    /\ now = 0
    /\ files = {}
    /\ ncalls = 0
    /\ verifications = {}
    /\ seq = 0
    /\ pdf = NoCall

\* ---- SQL helpers ----

\* UPDATE applications SET ... WHERE id = ?: rewrites the row with that id
\* and matches nothing when there is none.
UpdateWhereId(table, app_id, newrow) ==
    IF app_id \in DOMAIN table
      THEN [table EXCEPT ![app_id] = newrow]
      ELSE table

\* ---- update_phase1_status ----

\* Mutant: the branch marks the workflow as finished.
Phase1SelectedSet_completes(row, decision, current_date, interview_date) ==
    [row EXCEPT !.phase1_status = decision,
                !.phase1_date = current_date,
                !.interview_date = interview_date,
                !.workflow_phase = "completed",
                !.status = "interview programmé"]

\* SET clause of the first UPDATE of the selected_for_interview branch.
Phase1SelectedSet(row, decision, current_date, interview_date) ==
    [row EXCEPT !.phase1_status = decision,
                !.phase1_date = current_date,
                !.interview_date = interview_date,
                !.workflow_phase = "phase1",
                !.status = "interview programmé"]

\* Mutant: the rejection reason is not stored.
Phase1RejectedSet_drops_reason(row, decision, current_date, rejection_reason) ==
    [row EXCEPT !.phase1_status = decision,
                !.phase1_date = current_date,
                !.workflow_phase = "completed",
                !.status = "rejetée"]

\* SET clause of the UPDATE of the rejected branch.
Phase1RejectedSet(row, decision, current_date, rejection_reason) ==
    [row EXCEPT !.phase1_status = decision,
                !.phase1_date = current_date,
                !.rejection_reason = rejection_reason,
                !.workflow_phase = "completed",
                !.status = "rejetée"]

\* pdf_filename = f"convocation_{app_id}_{now:%Y%m%d_%H%M%S}.pdf"
ConvocationFilename(app_id, t) == <<"convocation", app_id, t>>

\* UPDATE applications SET interview_invitation_pdf = ? WHERE id = ?
AttachInvitationPdf(row, pdf_filename) ==
    [row EXCEPT !.interview_invitation_pdf = pdf_filename]

\* generate_interview_invitation_pdf raises or returns.  A None date makes
\* strptime raise inside the bare except, which leaves formatted_date = None,
\* and formatted_date.replace(...) then raises AttributeError; any other
\* failure (reportlab or qrcode missing, unwritable directory) is the
\* environment's, env_ok = FALSE.
RenderRaises(interview_date, env_ok) ==
    interview_date = NULL \/ ~env_ok

\* Mutant: the except clause rolls the transaction back.
CommitAfterException_rollback(transaction, committed) == committed

\* What the connection commits when the try block ended in the except
\* clause: the handler only logs, and the final conn.commit() commits the
\* transaction as it stands.
CommitAfterException(transaction, committed) == transaction

\* The call starts: connection opened, current_date read from the clock.
update_phase1_status_start(p, app_id, decision, interview_date, rejection_reason) ==
    /\ call[p].pc \in {"idle", "done"}
    /\ ncalls < MaxCalls
    /\ ncalls' = ncalls + 1
    /\ call' = [call EXCEPT ![p] =
                  [ pc |-> "connected", op |-> "phase1", app_id |-> app_id,
                    decision |-> decision, interview_date |-> interview_date,
                    rejection_reason |-> rejection_reason,
                    current_date |-> now, result |-> "none", phase |-> 0 ]]
    /\ UNCHANGED <<db, tx, lock, now, files>>
    /\ UNCHANGED <<registry, pdf>>

\* decision == 'selected_for_interview': the UPDATE opens the write
\* transaction, the SELECT reads the row back through the same cursor.
\* With no such row the try block does nothing and the call commits.
update_phase1_status_select(p) ==
    LET c == call[p] IN
    /\ c.pc = "connected" /\ c.op = "phase1"
    /\ c.decision = "selected_for_interview"
    /\ lock = 0
    /\ IF c.app_id \in DOMAIN db
         THEN /\ tx' = UpdateWhereId(db, c.app_id,
                         Phase1SelectedSet(db[c.app_id], c.decision,
                                           c.current_date, c.interview_date))
              /\ lock' = p
              /\ call' = [call EXCEPT ![p].pc = "rendering"]
         ELSE /\ tx' = db
              /\ lock' = 0
              /\ call' = [call EXCEPT ![p].pc = "done", ![p].result = "no_row"]
    /\ UNCHANGED <<db, now, files, ncalls>>
    /\ UNCHANGED <<registry, pdf>>

\* The renderer returns: the file is written, the filename is stored and
\* the transaction is committed (both UPDATEs at once); the trailing
\* commit and close change nothing.
update_phase1_status_pdf_ok(p) ==
    LET c == call[p]
        pdf_filename == ConvocationFilename(c.app_id, now)
    IN
    /\ c.pc = "rendering"
    /\ lock = p
    /\ ~RenderRaises(c.interview_date, TRUE)
    /\ files' = files \cup {pdf_filename}
    /\ db' = UpdateWhereId(tx, c.app_id,
                           AttachInvitationPdf(tx[c.app_id], pdf_filename))
    /\ tx' = db'
    /\ lock' = 0
    /\ call' = [call EXCEPT ![p].pc = "done", ![p].result = "pdf_attached"]
    /\ UNCHANGED <<now, ncalls>>
    /\ UNCHANGED <<registry, pdf>>

\* The renderer (or anything else in the try block) raises an Exception:
\* it is caught and printed, then conn.commit() and conn.close() run.
update_phase1_status_pdf_error(p) ==
    LET c == call[p] IN
    /\ c.pc = "rendering"
    /\ lock = p
    /\ \E env_ok \in BOOLEAN : RenderRaises(c.interview_date, env_ok)
    /\ db' = CommitAfterException(tx, db)
    /\ tx' = db'
    /\ lock' = 0
    /\ call' = [call EXCEPT ![p].pc = "done", ![p].result = "pdf_failed"]
    /\ UNCHANGED <<now, files, ncalls>>
    /\ UNCHANGED <<registry, pdf>>

\* The process is interrupted while the renderer runs (KeyboardInterrupt or
\* SystemExit, which `except Exception` does not catch, or the process is
\* killed): the connection is dropped without commit and SQLite rolls the
\* open transaction back.
update_phase1_status_interrupted(p) ==
    LET c == call[p] IN
    /\ c.pc = "rendering"
    /\ lock = p
    /\ tx' = db
    /\ lock' = 0
    /\ call' = [call EXCEPT ![p].pc = "done", ![p].result = "interrupted"]
    /\ UNCHANGED <<db, now, files, ncalls>>
    /\ UNCHANGED <<registry, pdf>>

\* decision == 'rejected': one UPDATE, then commit and close.
update_phase1_status_reject(p) ==
    LET c == call[p] IN
    /\ c.pc = "connected" /\ c.op = "phase1"
    /\ c.decision = "rejected"
    /\ lock = 0
    /\ db' = IF c.app_id \in DOMAIN db
               THEN UpdateWhereId(db, c.app_id,
                      Phase1RejectedSet(db[c.app_id], c.decision,
                                        c.current_date, c.rejection_reason))
               ELSE db
    /\ tx' = db'
    /\ call' = [call EXCEPT ![p].pc = "done",
                  ![p].result = IF c.app_id \in DOMAIN db THEN "updated" ELSE "no_row"]
    /\ UNCHANGED <<lock, now, files, ncalls>>
    /\ UNCHANGED <<registry, pdf>>

\* Any other decision: neither branch is taken, commit and close.
update_phase1_status_other(p) ==
    LET c == call[p] IN
    /\ c.pc = "connected" /\ c.op = "phase1"
    /\ c.decision \notin {"selected_for_interview", "rejected"}
    /\ call' = [call EXCEPT ![p].pc = "done", ![p].result = "no_branch"]
    /\ UNCHANGED <<db, tx, lock, now, files, ncalls>>
    /\ UNCHANGED <<registry, pdf>>

\* ---- update_phase2_status ----

\* Mutant: the decision attaches an acceptance letter itself.
Phase2AcceptedSet_attaches_letter(row, decision, current_date) ==
    [row EXCEPT !.phase2_status = decision,
                !.phase2_date = current_date,
                !.workflow_phase = "completed",
                !.status = "acceptée",
                !.acceptance_letter_pdf = <<"Lettre_Acceptation", decision>>]

\* Mutant: the date written is left at its old value.
Phase2AcceptedSet_no_date(row, decision, current_date) ==
    [row EXCEPT !.phase2_status = decision,
                !.workflow_phase = "completed",
                !.status = "acceptée"]

\* SET clause of the UPDATE of the accepted branch.
Phase2AcceptedSet(row, decision, current_date) ==
    [row EXCEPT !.phase2_status = decision,
                !.phase2_date = current_date,
                !.workflow_phase = "completed",
                !.status = "acceptée"]

\* Mutant: the workflow is left open.
Phase2RejectedSet_stays_open(row, decision, current_date, rejection_reason) ==
    [row EXCEPT !.phase2_status = decision,
                !.phase2_date = current_date,
                !.rejection_reason = rejection_reason,
                !.status = "rejetée"]

\* SET clause of the UPDATE of the rejected branch.
Phase2RejectedSet(row, decision, current_date, rejection_reason) ==
    [row EXCEPT !.phase2_status = decision,
                !.phase2_date = current_date,
                !.rejection_reason = rejection_reason,
                !.workflow_phase = "completed",
                !.status = "rejetée"]

update_phase2_status_start(p, app_id, decision, rejection_reason) ==
    /\ call[p].pc \in {"idle", "done"}
    /\ ncalls < MaxCalls
    /\ ncalls' = ncalls + 1
    /\ call' = [call EXCEPT ![p] =
                  [ pc |-> "connected", op |-> "phase2", app_id |-> app_id,
                    decision |-> decision, interview_date |-> NULL,
                    rejection_reason |-> rejection_reason,
                    current_date |-> now, result |-> "none", phase |-> 0 ]]
    /\ UNCHANGED <<db, tx, lock, now, files>>
    /\ UNCHANGED <<registry, pdf>>

\* decision == 'accepted': one UPDATE, then commit and close.
update_phase2_status_accept(p) ==
    LET c == call[p] IN
    /\ c.pc = "connected" /\ c.op = "phase2"
    /\ c.decision = "accepted"
    /\ lock = 0
    /\ db' = IF c.app_id \in DOMAIN db
               THEN UpdateWhereId(db, c.app_id,
                      Phase2AcceptedSet(db[c.app_id], c.decision, c.current_date))
               ELSE db
    /\ tx' = db'
    /\ call' = [call EXCEPT ![p].pc = "done",
                  ![p].result = IF c.app_id \in DOMAIN db THEN "updated" ELSE "no_row"]
    /\ UNCHANGED <<lock, now, files, ncalls>>
    /\ UNCHANGED <<registry, pdf>>

\* decision == 'rejected': one UPDATE, then commit and close.
update_phase2_status_reject(p) ==
    LET c == call[p] IN
    /\ c.pc = "connected" /\ c.op = "phase2"
    /\ c.decision = "rejected"
    /\ lock = 0
    /\ db' = IF c.app_id \in DOMAIN db
               THEN UpdateWhereId(db, c.app_id,
                      Phase2RejectedSet(db[c.app_id], c.decision,
                                        c.current_date, c.rejection_reason))
               ELSE db
    /\ tx' = db'
    /\ call' = [call EXCEPT ![p].pc = "done",
                  ![p].result = IF c.app_id \in DOMAIN db THEN "updated" ELSE "no_row"]
    /\ UNCHANGED <<lock, now, files, ncalls>>
    /\ UNCHANGED <<registry, pdf>>

\* Any other decision: neither branch is taken, commit and close.
update_phase2_status_other(p) ==
    LET c == call[p] IN
    /\ c.pc = "connected" /\ c.op = "phase2"
    /\ c.decision \notin {"accepted", "rejected"}
    /\ call' = [call EXCEPT ![p].pc = "done", ![p].result = "no_branch"]
    /\ UNCHANGED <<db, tx, lock, now, files, ncalls>>
    /\ UNCHANGED <<registry, pdf>>

\* ---- the store ----

\* An UPDATE issued while another connection holds the write lock waits
\* for it; when the lock is not released within the connection's timeout
\* sqlite3 raises OperationalError (database is locked) out of the call.
database_is_locked(p) ==
    LET c == call[p] IN
    /\ c.pc = "connected"
    /\ c.decision \in (IF c.op = "phase1" THEN {"selected_for_interview", "rejected"}
                                          ELSE {"accepted", "rejected"})
    /\ lock \notin {0, p}
    /\ call' = [call EXCEPT ![p].pc = "done", ![p].result = "locked"]
    /\ UNCHANGED <<db, tx, lock, now, files, ncalls>>
    /\ UNCHANGED <<registry, pdf>>

\* create_application: INSERT with status 'en attente' and commit; the id
\* is the next AUTOINCREMENT value.
create_application(job_id) ==
    LET app_id == seq + 1 IN
    /\ lock = 0
    /\ app_id <= MaxApps
    /\ seq' = app_id
    /\ db' = db @@ (app_id :> [NewRow EXCEPT !.job_id = job_id])
    /\ tx' = db'
    /\ UNCHANGED <<lock, call, now, files, ncalls, verifications, pdf>>

\* Arguments of a phase-1 call: the keyword argument the decision does not
\* need keeps its default None.
Phase1Args ==
    { <<"selected_for_interview", d, NULL>> : d \in InterviewDates }
    \cup { <<"rejected", NULL, r>> : r \in RejectionReasons }
    \cup { <<"accepted", NULL, NULL>> }

Phase2Args ==
    { <<"accepted", NULL>> }
    \cup { <<"rejected", r>> : r \in RejectionReasons }
    \cup { <<"selected_for_interview", NULL>> }

\* datetime.now() moves on between any two steps.
Tick ==
    /\ now < MaxTime
    /\ now' = now + 1
    /\ UNCHANGED <<db, tx, lock, call, files, ncalls>>
    /\ UNCHANGED <<registry, pdf>>

\* ============ the one-statement operations of models.py ============

ApplicationStatuses == {"acceptée", "rejetée"}
NotificationPhases == {1, 2, 3}
InterviewNotes == {"good communication"}
ConvocationNames(app_id) == {<<"Convocation_Entretien", app_id>>}
AcceptanceNames(app_id) == {<<"Lettre_Acceptation", app_id>>}

\* A call that connects, executes and commits in one piece, seen by the
\* other connections as one step.  It waits while another connection
\* holds the write lock.
CommitsAtOnce(p, op, app_id, phase, result, table) ==
    /\ call[p].pc \in {"idle", "done"}
    /\ ncalls < MaxCalls
    /\ lock = 0
    /\ ncalls' = ncalls + 1
    /\ db' = table
    /\ tx' = table
    /\ call' = [call EXCEPT ![p] =
                  [IdleCall EXCEPT !.pc = "done", !.op = op, !.app_id = app_id,
                                   !.phase = phase, !.result = result]]
    /\ UNCHANGED <<lock, now, pdf>>

RowResult(app_id) == IF app_id \in DOMAIN db THEN "updated" ELSE "no_row"

\* SET status = ?
StatusSet_closes(row, status) ==
    [row EXCEPT !.status = status,
                !.workflow_phase = IF status = "rejetée" THEN "completed" ELSE @]

StatusSet(row, status) == [row EXCEPT !.status = status]

update_application_status(p, app_id, status) ==
    /\ CommitsAtOnce(p, "update_application_status", app_id, 0, RowResult(app_id),
          IF app_id \in DOMAIN db
              THEN UpdateWhereId(db, app_id, StatusSet(db[app_id], status))
              ELSE db)
    /\ UNCHANGED <<files, verifications, seq>>

\* SET phase1_notification_sent = 1 when phase == 1, SET
\* phase2_notification_sent = 1 when phase == 2, no statement otherwise.
NotificationSentSet_any_phase(row, phase) ==
    IF phase = 1
        THEN [row EXCEPT !.phase1_notification_sent = 1]
        ELSE [row EXCEPT !.phase2_notification_sent = 1]

NotificationSentSet_toggles(row, phase) ==
    IF phase = 1
        THEN [row EXCEPT !.phase1_notification_sent = 1 - @]
        ELSE IF phase = 2
            THEN [row EXCEPT !.phase2_notification_sent = 1 - @]
            ELSE row

NotificationSentSet(row, phase) ==
    IF phase = 1
        THEN [row EXCEPT !.phase1_notification_sent = 1]
        ELSE IF phase = 2
            THEN [row EXCEPT !.phase2_notification_sent = 1]
            ELSE row

mark_notification_sent_inserts(p, app_id, phase) ==
    /\ CommitsAtOnce(p, "mark_notification_sent", app_id, phase,
          IF phase \in {1, 2} THEN RowResult(app_id) ELSE "no_branch",
          IF app_id \in DOMAIN db
              THEN UpdateWhereId(db, app_id, NotificationSentSet(db[app_id], phase))
              ELSE db @@ (app_id :> NotificationSentSet(NewRow, phase)))
    /\ UNCHANGED <<files, verifications, seq>>

mark_notification_sent(p, app_id, phase) ==
    /\ CommitsAtOnce(p, "mark_notification_sent", app_id, phase,
          IF phase \in {1, 2} THEN RowResult(app_id) ELSE "no_branch",
          IF app_id \in DOMAIN db
              THEN UpdateWhereId(db, app_id, NotificationSentSet(db[app_id], phase))
              ELSE db)
    /\ UNCHANGED <<files, verifications, seq>>

\* SET interview_notes = ?
InterviewNotesSet(row, notes) == [row EXCEPT !.interview_notes = notes]

add_interview_notes(p, app_id, notes) ==
    /\ CommitsAtOnce(p, "add_interview_notes", app_id, 0, RowResult(app_id),
          IF app_id \in DOMAIN db
              THEN UpdateWhereId(db, app_id, InterviewNotesSet(db[app_id], notes))
              ELSE db)
    /\ UNCHANGED <<files, verifications, seq>>

\* SET interview_invitation_pdf = ?  (the statement of AttachInvitationPdf,
\* with a name the caller chose; no file is written)
save_interview_invitation_pdf(p, app_id, pdf_filename) ==
    /\ CommitsAtOnce(p, "save_interview_invitation_pdf", app_id, 0, RowResult(app_id),
          IF app_id \in DOMAIN db
              THEN UpdateWhereId(db, app_id, AttachInvitationPdf(db[app_id], pdf_filename))
              ELSE db)
    /\ UNCHANGED <<files, verifications, seq>>

\* SET acceptance_letter_pdf = ?
AcceptanceLetterPdfSet(row, pdf_filename) ==
    [row EXCEPT !.acceptance_letter_pdf = pdf_filename]

save_acceptance_letter_pdf(p, app_id, pdf_filename) ==
    /\ CommitsAtOnce(p, "save_acceptance_letter_pdf", app_id, 0, RowResult(app_id),
          IF app_id \in DOMAIN db
              THEN UpdateWhereId(db, app_id, AcceptanceLetterPdfSet(db[app_id], pdf_filename))
              ELSE db)
    /\ UNCHANGED <<files, verifications, seq>>

\* Only a spontaneous application (job_id = 0) is toggled: is_favorite
\* becomes 0 when it was 1 and 1 otherwise; any other call returns None.
FavoriteSet(row) ==
    [row EXCEPT !.is_favorite = IF @ = 1 THEN 0 ELSE 1]

toggle_favorite(p, app_id) ==
    LET spontaneous == app_id \in DOMAIN db /\ db[app_id].job_id = 0 IN
    /\ CommitsAtOnce(p, "toggle_favorite", app_id, 0,
          IF spontaneous THEN "updated"
              ELSE IF app_id \in DOMAIN db THEN "not_spontaneous" ELSE "no_row",
          IF spontaneous
              THEN UpdateWhereId(db, app_id, FavoriteSet(db[app_id]))
              ELSE db)
    /\ UNCHANGED <<files, verifications, seq>>

\* ============ verification codes and the registry table ============

CodeLength == 16
DocumentTypes == {"interview_invitation", "acceptance_letter"}
DigitChars == <<"0", "1", "2", "3", "4", "5", "6", "7", "8", "9">>
HexChars == DigitChars \o <<"a", "b", "c", "d", "e", "f">>
UpperOf == [a |-> "A", b |-> "B", c |-> "C", d |-> "D", e |-> "E", f |-> "F"]

\* str.upper() on one character of a hex digest
upper(ch) == IF ch \in DOMAIN UpperOf THEN UpperOf[ch] ELSE ch

\* hashlib.sha256(...).hexdigest(): 64 lower-case hex characters.  The
\* hashed string holds secrets.token_hex(16), so the digest does not follow
\* from the arguments; two digests stand for the possible ones.
Sha256HexDigests ==
    { [i \in 1..64 |-> HexChars[((k * i + (i \div 5)) % 16) + 1]] : k \in {3, 7} }

\* The codes one call may return: verification_hash[:16].upper()
generate_verification_code(application_id, document_type) ==
    { [i \in 1..CodeLength |-> upper(d[i])] : d \in Sha256HexDigests }

\* str(n) for a non-negative integer
RECURSIVE Decimal(_)
Decimal(n) ==
    IF n < 10 THEN <<DigitChars[n + 1]>>
              ELSE Decimal(n \div 10) \o <<DigitChars[(n % 10) + 1]>>

\* datetime.now().strftime('%Y%m%d'); the instants of the clock all lie
\* within 15 October 2025
strftime_Ymd(t) == <<"2", "0", "2", "5", "1", "0", "1", "5">>

\* The code update_phase1_status hands to the renderer:
\* f"CONV-{app_id}-{datetime.now().strftime('%Y%m%d')}"
ConvocationCode(app_id, t) ==
    <<"C", "O", "N", "V", "-">> \o Decimal(app_id) \o <<"-">> \o strftime_Ymd(t)

\* The code printed in (and encoded in the QR image of) a file that
\* update_phase1_status wrote: name and code are built in the same step
\* from app_id and the clock.
EmbeddedCode(pdf_filename) == ConvocationCode(pdf_filename[2], pdf_filename[3])

\* Registry.issue of the specification: a fresh code is drawn and the
\* binding is inserted; the UNIQUE constraint on verification_code refuses
\* a code that is already bound.
issue(p, application_id, document_type) ==
    \E code \in generate_verification_code(application_id, document_type) :
        LET taken == \E v \in verifications : v.verification_code = code IN
        /\ application_id \in DOMAIN db
        /\ CommitsAtOnce(p, "issue", application_id, 0,
              IF taken THEN "integrity_error" ELSE "issued", db)
        /\ verifications' =
              IF taken THEN verifications
              ELSE verifications \cup
                     {[ verification_code |-> code,
                        application_id |-> application_id,
                        document_type |-> document_type,
                        issue_date |-> strftime_Ymd(now),
                        pdf_path |-> <<document_type, application_id>>,
                        status |-> "valide" ]}
        /\ UNCHANGED <<files, seq>>

\* DELETE FROM document_verifications WHERE application_id = ? / IN (...)
DeleteVerificationsWhere_keeps(table, app_ids) == table

DeleteVerificationsWhere(table, app_ids) ==
    {v \in table : v.application_id \notin app_ids}

\* DELETE FROM applications WHERE id = ? / WHERE job_id = ?
DeleteApplicationsWhere(table, app_ids) ==
    [a \in (DOMAIN table) \ app_ids |-> table[a]]

\* delete_application_files: the convocation the row names is removed
\* from static/convocations when it is there.
DeleteApplicationFiles(dir, table, app_ids) ==
    dir \ {table[a].interview_invitation_pdf : a \in app_ids \cap DOMAIN table}

\* The result tells whether the branch verification_count > 0 was taken.
delete_application(p, app_id) ==
    /\ CommitsAtOnce(p, "delete_application", app_id, 0,
          IF \E v \in verifications : v.application_id = app_id
              THEN "verifications_deleted" ELSE RowResult(app_id),
          DeleteApplicationsWhere(db, {app_id}))
    /\ files' = DeleteApplicationFiles(files, db, {app_id})
    /\ verifications' = DeleteVerificationsWhere(verifications, {app_id})
    /\ UNCHANGED seq

\* The applications of the job go, with their files and their verification
\* records (the jobs table is not part of the model).
delete_job(p, job_id) ==
    LET app_ids == {a \in DOMAIN db : db[a].job_id = job_id} IN
    /\ CommitsAtOnce(p, "delete_job", 0, 0,
          IF \E v \in verifications : v.application_id \in app_ids
              THEN "verifications_deleted" ELSE "deleted",
          DeleteApplicationsWhere(db, app_ids))
    /\ files' = DeleteApplicationFiles(files, db, app_ids)
    /\ verifications' = DeleteVerificationsWhere(verifications, app_ids)
    /\ UNCHANGED seq

\* ====================== pdf_generator.py ======================

MaxPages == 2     \* pages a document is laid out on

NoCode == <<>>    \* verification_code None or '': both fail `if verification_code:`
RequiredFields == {"prenom", "nom", "email", "telephone", "adresse", "job_title"}

\* A row of applications as the dictionary handed to a renderer.
FullData ==
    [ id |-> 1, prenom |-> "Amina", nom |-> "Farah",
      email |-> "amina@example.org", telephone |-> "77 00 00 00",
      adresse |-> "Balbala", job_title |-> "Comptable" ]

Without(d, keys) == [k \in (DOMAIN d) \ keys |-> d[k]]

\* The complete dictionary, the dictionaries that lack one key, and the
\* one of a spontaneous application that names the selected job only.
ApplicationDatas ==
    {FullData}
        \cup {Without(FullData, {k}) : k \in DOMAIN FullData}
        \cup {Without(FullData, {"job_title"}) @@ [selected_job_title |-> "Caissier"]}

RenderDates == InterviewDates \cup {"le 15 octobre vers 14h", ""}
RenderCodes == {NoCode, ConvocationCode(1, 0)} \cup generate_verification_code(1, "interview_invitation")
BaseUrls == {"http://localhost:5000", "https://rh.example.org"}

\* datetime.strptime(s, '%Y-%m-%dT%H:%M') with the two strftime results
\* that reach the document; any other value raises inside the try.
Strptime ==
    [ x \in {"2025-10-15T14:00"} |-> [day |-> "15/10/2025", time |-> "14:00"] ]

\* f"{base_url}/verify/{verification_code}"
VerificationUrl(base_url, verification_code) ==
    <<base_url, "/verify/", verification_code>>

\* create_qr_code: the image that scans as verification_url
create_qr_code(verification_url) == [scans_as |-> verification_url]

\* add_qr_and_code, the onFirstPage and onLaterPages callback of both
\* renderers: what it draws on one page.
add_qr_and_code_always(verification_code, base_url) ==
    [ qr |-> <<create_qr_code(VerificationUrl(base_url, verification_code))>>,
      code_text |-> <<verification_code>> ]

add_qr_and_code(verification_code, base_url) ==
    IF verification_code # NoCode
        THEN [ qr |-> <<create_qr_code(VerificationUrl(base_url, verification_code))>>,
               code_text |-> <<verification_code>> ]
        ELSE [ qr |-> <<>>, code_text |-> <<>> ]

\* doc.build(elements, onFirstPage=add_qr_and_code, onLaterPages=add_qr_and_code)
Build(npages, verification_code, base_url) ==
    [i \in 1..npages |-> add_qr_and_code(verification_code, base_url)]

Raised(error) == [raised |-> TRUE, error |-> error]

\* except: the raw value goes to the date cell, the placeholder to the
\* time cell.
DateCells_blank(interview_date) ==
    IF interview_date \in DOMAIN Strptime
        THEN Strptime[interview_date]
        ELSE [day |-> interview_date, time |-> ""]

DateCells(interview_date) ==
    IF interview_date \in DOMAIN Strptime
        THEN Strptime[interview_date]
        ELSE [day |-> interview_date, time |-> "À confirmer"]

\* What generate_interview_invitation_pdf does with its arguments, in the
\* order of the code: the subscripted keys raise KeyError when absent, the
\* .replace loop raises AttributeError when the unparsed value is None,
\* then the pages are built.  The directory of output_path is taken to be
\* writable.
InvitationDocument(application_data, interview_date, verification_code, base_url, npages) ==
    LET d == application_data IN
    IF {"prenom", "nom", "email", "telephone", "adresse"} \ DOMAIN d # {}
        THEN Raised("KeyError")
    ELSE IF {"selected_job_title", "job_title"} \cap DOMAIN d = {}
        THEN Raised("KeyError")
    ELSE IF interview_date = NULL
        THEN Raised("AttributeError")
    ELSE IF "id" \notin DOMAIN d
        THEN Raised("KeyError")
    ELSE [ raised |-> FALSE,
           recipient |-> <<d.prenom, d.nom, d.email, d.telephone, d.adresse>>,
           job_title |-> IF "selected_job_title" \in DOMAIN d
                             THEN d.selected_job_title ELSE d.job_title,
           date_cell |-> DateCells(interview_date).day,
           time_cell |-> DateCells(interview_date).time,
           reference |-> <<"CONV", d.id>>,
           pages |-> Build(npages, verification_code, base_url) ]

generate_interview_invitation_pdf(application_data, interview_date, verification_code, base_url, npages) ==
    /\ pdf' = [ fn |-> "generate_interview_invitation_pdf",
                application_data |-> application_data,
                interview_date |-> interview_date,
                verification_code |-> verification_code,
                base_url |-> base_url,
                result |-> InvitationDocument(application_data, interview_date,
                                              verification_code, base_url, npages) ]
    /\ UNCHANGED <<db, tx, lock, call, now, files, ncalls, verifications, seq>>

\* dict.get(key, default)
Get(d, key, default) == IF key \in DOMAIN d THEN d[key] ELSE default

\* generate_acceptance_letter_pdf: every key but 'id' is read with
\* .get and a default.
AcceptanceDocument(application_data, verification_code, base_url, npages) ==
    LET d == application_data IN
    IF "id" \notin DOMAIN d
        THEN Raised("KeyError")
    ELSE [ raised |-> FALSE,
           recipient |-> <<Get(d, "prenom", ""), Get(d, "nom", ""),
                           Get(d, "email", ""), Get(d, "telephone", ""),
                           Get(d, "adresse", "Djibouti")>>,
           job_title |-> Get(d, "job_title", "le poste proposé"),
           reference |-> <<"ACCEPT", d.id>>,
           pages |-> Build(npages, verification_code, base_url) ]

generate_acceptance_letter_pdf(application_data, verification_code, base_url, npages) ==
    /\ pdf' = [ fn |-> "generate_acceptance_letter_pdf",
                application_data |-> application_data,
                verification_code |-> verification_code,
                base_url |-> base_url,
                result |-> AcceptanceDocument(application_data, verification_code,
                                              base_url, npages) ]
    /\ UNCHANGED <<db, tx, lock, call, now, files, ncalls, verifications, seq>>

\* ---- the filename helpers ----

AsciiLetters ==
    {"A", "B", "C", "D", "E", "F", "G", "H", "I", "J", "K", "L", "M",
     "N", "O", "P", "Q", "R", "S", "T", "U", "V", "W", "X", "Y", "Z",
     "a", "b", "c", "d", "e", "f", "g", "h", "i", "j", "k", "l", "m",
     "n", "o", "p", "q", "r", "s", "t", "u", "v", "w", "x", "y", "z"}

\* \w of a str pattern: re.UNICODE is the default, so the letters and
\* digits of every script match, not only the ASCII ones.
WordChars ==
    AsciiLetters \cup {DigitChars[i] : i \in DOMAIN DigitChars} \cup {"_"}
        \cup {"é", "ï", "ç"}

\* \s
SpaceChars == {" ", "\t"}

CandidateNames ==
    { <<"A", "m", "i", "n", "a", " ", "F", "a", "r", "a", "h">>,
      <<"J", "e", "a", "n", "-", "L", "u", "c", " ", " ", "A", "l", "i">>,
      <<"J", "o", "s", "é", " ", "O", "m", "a", "r">>,
      <<"O", "'", "N", "e", "i", "l", ".">> }

KeptByFirstSub(ch) == ch \in WordChars \cup SpaceChars \cup {"-"}

\* re.sub(r'[-\s]+', '_', s): every maximal run of hyphens and white
\* space becomes one underscore
RECURSIVE SubRuns(_, _)
SubRuns(s, in_run) ==
    IF s = <<>> THEN <<>>
    ELSE IF Head(s) \in SpaceChars \cup {"-"}
        THEN (IF in_run THEN <<>> ELSE <<"_">>) \o SubRuns(Tail(s), TRUE)
        ELSE <<Head(s)>> \o SubRuns(Tail(s), FALSE)

\* clean_name = re.sub(r'[^\w\s-]', '', candidate_name)
\* clean_name = re.sub(r'[-\s]+', '_', clean_name)
CleanName(candidate_name) ==
    SubRuns(SelectSeq(candidate_name, KeptByFirstSub), FALSE)

\* f"{label}_{clean_name}_{application_id}_{timestamp}.pdf" with the
\* timestamp read from the clock
HelperFilename(label, candidate_name, application_id, t) ==
    [ label |-> label, clean_name |-> CleanName(candidate_name),
      application_id |-> application_id, timestamp |-> t, suffix |-> ".pdf" ]

generate_interview_invitation_filename(candidate_name, application_id) ==
    /\ pdf' = [ fn |-> "generate_interview_invitation_filename",
                candidate_name |-> candidate_name,
                result |-> HelperFilename("Convocation_Entretien", candidate_name,
                                          application_id, now) ]
    /\ UNCHANGED <<db, tx, lock, call, now, files, ncalls, verifications, seq>>

generate_acceptance_letter_filename(candidate_name, application_id) ==
    /\ pdf' = [ fn |-> "generate_acceptance_letter_filename",
                candidate_name |-> candidate_name,
                result |-> HelperFilename("Lettre_Acceptation", candidate_name,
                                          application_id, now) ]
    /\ UNCHANGED <<db, tx, lock, call, now, files, ncalls, verifications, seq>>

\* The calls of pdf_generator.py with their arguments drawn freely.
NextRender ==
    \/ \E application_data \in ApplicationDatas, interview_date \in RenderDates,
          verification_code \in RenderCodes, base_url \in BaseUrls,
          npages \in 1..MaxPages :
            generate_interview_invitation_pdf(application_data, interview_date,
                                              verification_code, base_url, npages)
    \/ \E application_data \in ApplicationDatas,
          verification_code \in RenderCodes, base_url \in BaseUrls,
          npages \in 1..MaxPages :
            generate_acceptance_letter_pdf(application_data, verification_code,
                                           base_url, npages)
    \/ \E candidate_name \in CandidateNames, application_id \in AppIds :
            generate_interview_invitation_filename(candidate_name, application_id)
    \/ \E candidate_name \in CandidateNames, application_id \in AppIds :
            generate_acceptance_letter_filename(candidate_name, application_id)
    \/ Tick

\* The renderers and filename helpers on their own.
SpecRender == Init /\ [][NextRender]_vars

\* The steps of the calls of one request handler.
Handler(p) ==
    \/ \E app_id \in AppIds, a \in Phase1Args :
          update_phase1_status_start(p, app_id, a[1], a[2], a[3])
    \/ update_phase1_status_select(p)
    \/ update_phase1_status_pdf_ok(p)
    \/ update_phase1_status_pdf_error(p)
    \/ update_phase1_status_interrupted(p)
    \/ update_phase1_status_reject(p)
    \/ update_phase1_status_other(p)
    \/ \E app_id \in AppIds, a \in Phase2Args :
          update_phase2_status_start(p, app_id, a[1], a[2])
    \/ update_phase2_status_accept(p)
    \/ update_phase2_status_reject(p)
    \/ update_phase2_status_other(p)

Next ==
    \/ Tick
    \/ \E job_id \in PostedJobs : create_application(job_id)
    \/ \E p \in Callers : Handler(p)

NextConcurrent ==
    \/ Tick
    \/ \E job_id \in PostedJobs : create_application(job_id)
    \/ \E p \in Procs : Handler(p)
    \/ \E p \in Procs : database_is_locked(p)

\* The calls that write one column of an application.
RecordHandler(p) ==
    \/ \E app_id \in AppIds, status \in ApplicationStatuses :
          update_application_status(p, app_id, status)
    \/ \E app_id \in AppIds, phase \in NotificationPhases :
          mark_notification_sent(p, app_id, phase)
    \/ \E app_id \in AppIds, notes \in InterviewNotes :
          add_interview_notes(p, app_id, notes)
    \/ \E app_id \in AppIds : \E pdf_filename \in ConvocationNames(app_id) :
          save_interview_invitation_pdf(p, app_id, pdf_filename)
    \/ \E app_id \in AppIds : \E pdf_filename \in AcceptanceNames(app_id) :
          save_acceptance_letter_pdf(p, app_id, pdf_filename)
    \/ \E app_id \in AppIds : toggle_favorite(p, app_id)

\* The calls that touch document_verifications, and the one that attaches
\* an acceptance letter.
RegistryHandler(p) ==
    \/ \E app_id \in AppIds : \E pdf_filename \in AcceptanceNames(app_id) :
          save_acceptance_letter_pdf(p, app_id, pdf_filename)
    \/ \E app_id \in AppIds, document_type \in DocumentTypes :
          issue(p, app_id, document_type)
    \/ \E app_id \in AppIds : delete_application(p, app_id)
    \/ \E job_id \in JobIds : delete_job(p, job_id)

\* In the next two relations every call happens within one second.
NextRecords ==
    \/ \E job_id \in JobIds : create_application(job_id)
    \/ \E p \in Callers : Handler(p)
    \/ \E p \in Callers : RecordHandler(p)

NextRegistry ==
    \/ \E job_id \in JobIds : create_application(job_id)
    \/ \E p \in Callers : Handler(p)
    \/ \E p \in Callers : RegistryHandler(p)

\* The phase decisions among the one-column writes.
SpecRecords == Init /\ [][NextRecords]_vars

\* The phase decisions among the issue of verification records and the
\* deletions.
SpecRegistry == Init /\ [][NextRegistry]_vars

\* ---- callers that keep to the workflow ----

ValidPhase1Args == {a \in Phase1Args : a[1] \in {"selected_for_interview", "rejected"}}
ValidPhase2Args == {a \in Phase2Args : a[1] \in {"accepted", "rejected"}}

\* The preconditions the functions leave to their caller: a phase-1
\* decision on a pending application only, a phase-2 decision on a
\* shortlisted, undecided one only.
Phase1Offered(app_id) ==
    /\ app_id \in DOMAIN db
    /\ db[app_id].phase1_status = "pending"

Phase2Offered(app_id) ==
    /\ app_id \in DOMAIN db
    /\ db[app_id].phase1_status = "selected_for_interview"
    /\ db[app_id].phase2_status = NULL

\* The steps of a handler that decides only what is offered, with valid
\* decision values, and never calls update_application_status.
DisciplinedHandler(p) ==
    \/ \E app_id \in AppIds, a \in ValidPhase1Args :
          /\ Phase1Offered(app_id)
          /\ update_phase1_status_start(p, app_id, a[1], a[2], a[3])
    \/ update_phase1_status_select(p)
    \/ update_phase1_status_pdf_ok(p)
    \/ update_phase1_status_pdf_error(p)
    \/ update_phase1_status_interrupted(p)
    \/ update_phase1_status_reject(p)
    \/ \E app_id \in AppIds, a \in ValidPhase2Args :
          /\ Phase2Offered(app_id)
          /\ update_phase2_status_start(p, app_id, a[1], a[2])
    \/ update_phase2_status_accept(p)
    \/ update_phase2_status_reject(p)
    \/ \E app_id \in AppIds, phase \in NotificationPhases :
          mark_notification_sent(p, app_id, phase)
    \/ \E app_id \in AppIds, notes \in InterviewNotes :
          add_interview_notes(p, app_id, notes)
    \/ \E app_id \in AppIds : \E pdf_filename \in AcceptanceNames(app_id) :
          save_acceptance_letter_pdf(p, app_id, pdf_filename)

NextDisciplined ==
    \/ Tick
    \/ \E job_id \in JobIds : create_application(job_id)
    \/ \E p \in Callers : DisciplinedHandler(p)

\* One HR user who keeps to the workflow.
SpecDisciplined == Init /\ [][NextDisciplined]_vars

\* ---- calls with an id that was never handed out ----

UnknownIds == {MaxApps + 1}

UnknownIdHandler(p) ==
    \/ \E app_id \in UnknownIds, a \in Phase1Args :
          update_phase1_status_start(p, app_id, a[1], a[2], a[3])
    \/ \E app_id \in UnknownIds, a \in Phase2Args :
          update_phase2_status_start(p, app_id, a[1], a[2])
    \/ \E app_id \in AppIds \cup UnknownIds, phase \in NotificationPhases :
          mark_notification_sent(p, app_id, phase)

\* Every call happens within one second.
NextUnknownId ==
    \/ \E job_id \in PostedJobs : create_application(job_id)
    \/ \E p \in Callers : Handler(p)
    \/ \E p \in Callers : UnknownIdHandler(p)

\* The phase decisions and mark_notification_sent, called with the ids of
\* stored applications and with ids of none.
SpecUnknownId == Init /\ [][NextUnknownId]_vars

Spec == Init /\ [][Next]_vars

SpecConcurrent == Init /\ [][NextConcurrent]_vars

\* ======================= properties =======================

\* The step in which a call of process p returns normally (its last commit
\* is part of that step).
Returns(p, op, decision) ==
    /\ call[p].pc \in {"connected", "rendering"}
    /\ call[p].op = op
    /\ call[p].decision = decision
    /\ call'[p].pc = "done"
    /\ call'[p].result \in {"updated", "pdf_attached", "pdf_failed"}

\* The last call of process p was (op, decision) on a row that existed, and
\* it returned normally.
Returned(p, op, decision) ==
    /\ call[p].pc = "done"
    /\ call[p].op = op
    /\ call[p].decision = decision
    /\ call[p].result \in {"updated", "pdf_attached", "pdf_failed"}
    /\ call[p].app_id \in DOMAIN db

\* C1: when update_phase1_status(id, 'selected_for_interview', date) with a
\* date returns on an existing application, the committed row has
\* phase1_status = 'selected_for_interview', phase1_date = the time the call
\* read, interview_date = the date passed, status = 'interview programmé'
\* and workflow_phase = 'phase1'.
C1_Phase1Selected ==
    [][\A p \in Procs :
        (Returns(p, "phase1", "selected_for_interview")
            /\ call[p].interview_date # NULL)
        => LET r == db'[call[p].app_id] IN
           /\ r.phase1_status = "selected_for_interview"
           /\ r.phase1_date = call[p].current_date
           /\ r.interview_date = call[p].interview_date
           /\ r.status = "interview programmé"
           /\ r.workflow_phase = "phase1"]_vars

C1_Witness ==
    \E p \in Procs :
        /\ Returned(p, "phase1", "selected_for_interview")
        /\ call[p].interview_date # NULL
        /\ call[p].result = "pdf_attached"
        /\ db[call[p].app_id].phase1_status = "selected_for_interview"
        /\ db[call[p].app_id].interview_date = call[p].interview_date

\* C2: when update_phase1_status(id, 'rejected', reason) with a reason
\* returns on an existing application, the committed row has phase1_status =
\* 'rejected', phase1_date = the time the call read, rejection_reason = the
\* reason passed, status = 'rejetée' and workflow_phase = 'completed'; no
\* file is written and interview_invitation_pdf is what it was.
C2_Phase1Rejected ==
    [][\A p \in Procs :
        (Returns(p, "phase1", "rejected") /\ call[p].rejection_reason # NULL)
        => LET r == db'[call[p].app_id] IN
           /\ r.phase1_status = "rejected"
           /\ r.phase1_date = call[p].current_date
           /\ r.rejection_reason = call[p].rejection_reason
           /\ r.status = "rejetée"
           /\ r.workflow_phase = "completed"
           /\ files' = files
           /\ r.interview_invitation_pdf
                = db[call[p].app_id].interview_invitation_pdf]_vars

C2_Witness ==
    \E p \in Procs :
        /\ Returned(p, "phase1", "rejected")
        /\ call[p].rejection_reason # NULL
        /\ db[call[p].app_id].phase1_status = "rejected"
        /\ db[call[p].app_id].rejection_reason = call[p].rejection_reason
        /\ db[call[p].app_id].interview_invitation_pdf # NoFile

\* C3: when update_phase2_status(id, 'accepted') returns on an application
\* whose phase1_status is 'selected_for_interview', the committed row has
\* phase2_status = 'accepted', phase2_date = the time the call read, status =
\* 'acceptée' and workflow_phase = 'completed'.
C3_Phase2Accepted ==
    [][\A p \in Procs :
        (Returns(p, "phase2", "accepted")
            /\ db[call[p].app_id].phase1_status = "selected_for_interview")
        => LET r == db'[call[p].app_id] IN
           /\ r.phase2_status = "accepted"
           /\ r.phase2_date = call[p].current_date
           /\ r.status = "acceptée"
           /\ r.workflow_phase = "completed"]_vars

C3_Witness ==
    \E p \in Procs :
        /\ Returned(p, "phase2", "accepted")
        /\ db[call[p].app_id].phase1_status = "selected_for_interview"
        /\ db[call[p].app_id].phase2_status = "accepted"
        /\ db[call[p].app_id].phase2_date = call[p].current_date
        /\ db[call[p].app_id].phase1_date < call[p].current_date

\* C4: when update_phase2_status(id, 'rejected', reason) with a reason
\* returns on an existing application, the committed row has phase2_status =
\* 'rejected', phase2_date = the time the call read, rejection_reason = the
\* reason passed, status = 'rejetée' and workflow_phase = 'completed'.
C4_Phase2Rejected ==
    [][\A p \in Procs :
        (Returns(p, "phase2", "rejected") /\ call[p].rejection_reason # NULL)
        => LET r == db'[call[p].app_id] IN
           /\ r.phase2_status = "rejected"
           /\ r.phase2_date = call[p].current_date
           /\ r.rejection_reason = call[p].rejection_reason
           /\ r.status = "rejetée"
           /\ r.workflow_phase = "completed"]_vars

C4_Witness ==
    \E p \in Procs :
        /\ Returned(p, "phase2", "rejected")
        /\ call[p].rejection_reason # NULL
        /\ db[call[p].app_id].phase2_status = "rejected"
        /\ db[call[p].app_id].rejection_reason = call[p].rejection_reason
        /\ db[call[p].app_id].phase1_status = "selected_for_interview"

\* C5: when the renderer raises during update_phase1_status(id,
\* 'selected_for_interview', ...), the call still returns normally and the
\* UPDATE of phase1_status, phase1_date, interview_date, status and
\* workflow_phase made before the try block is committed, not rolled back.
C5_RenderFailureKeepsTransition ==
    [][\A p \in Procs :
        (call[p].pc = "rendering" /\ call'[p].result = "pdf_failed")
        => /\ call'[p].pc = "done"
           /\ lock' = 0
           /\ db'[call[p].app_id] = tx[call[p].app_id]
           /\ LET r == db'[call[p].app_id] IN
              /\ r.phase1_status = "selected_for_interview"
              /\ r.phase1_date = call[p].current_date
              /\ r.interview_date = call[p].interview_date
              /\ r.status = "interview programmé"
              /\ r.workflow_phase = "phase1"]_vars

C5_Witness ==
    \E p \in Procs :
        /\ Returned(p, "phase1", "selected_for_interview")
        /\ call[p].result = "pdf_failed"
        /\ call[p].interview_date # NULL
        /\ db[call[p].app_id].phase1_status = "selected_for_interview"
        /\ db[call[p].app_id].interview_date = call[p].interview_date
        /\ db[call[p].app_id].interview_invitation_pdf = NoFile

\* C6: when update_phase1_status(id, 'selected_for_interview', ...) returns
\* on an existing application, interview_invitation_pdf is the name of the
\* file this call wrote if the renderer returned, and is empty if the
\* renderer raised.
C6_PdfAttachedIffRendered ==
    [][\A p \in Procs :
        (call[p].pc = "rendering" /\ call'[p].pc = "done")
        => LET r == db'[call[p].app_id] IN
           /\ call'[p].result = "pdf_attached"
                => /\ r.interview_invitation_pdf
                        = ConvocationFilename(call[p].app_id, now)
                   /\ r.interview_invitation_pdf \in files'
           /\ call'[p].result = "pdf_failed"
                => r.interview_invitation_pdf = NoFile]_vars

\* C7: once workflow_phase = 'completed', no later call changes the row's
\* workflow_phase, phase1_status, phase2_status or status.
C7_CompletedIsFinal ==
    [][\A a \in DOMAIN db :
        (db[a].workflow_phase = "completed" /\ a \in DOMAIN db')
        => /\ db'[a].workflow_phase = db[a].workflow_phase
           /\ db'[a].phase1_status = db[a].phase1_status
           /\ db'[a].phase2_status = db[a].phase2_status
           /\ db'[a].status = db[a].status]_vars

\* A terminal decision is recorded on the row.
TerminalDecision(row) ==
    \/ row.phase1_status = "rejected"
    \/ row.phase2_status \in {"accepted", "rejected"}

\* C8: for every application, workflow_phase is 'completed' exactly when a
\* terminal decision is recorded (phase1_status = 'rejected', or
\* phase2_status accepted or rejected), and 'phase1' otherwise.
C8_CompletedIffTerminal ==
    \A a \in DOMAIN db :
        /\ db[a].workflow_phase \in {"phase1", "completed"}
        /\ db[a].workflow_phase = "completed" <=> TerminalDecision(db[a])

\* C9: for every application, phase2_status and phase2_date are set only if
\* phase1_status = 'selected_for_interview'.
C9_Phase2OnlyAfterSelection ==
    \A a \in DOMAIN db :
        (db[a].phase2_status # NULL \/ db[a].phase2_date # NULLDATE)
        => db[a].phase1_status = "selected_for_interview"

\* C10: in update_phase1_status(id, 'selected_for_interview', ...) the
\* workflow fields are committed before the document is produced: while the
\* renderer runs, every other connection already reads the new phase1_status,
\* phase1_date, interview_date, status and workflow_phase, so dropping the
\* call at that point cannot lose them.
C10_TransitionCommittedBeforeRendering ==
    \A p \in Procs :
        call[p].pc = "rendering"
        => LET r == db[call[p].app_id] IN
           /\ r.phase1_status = "selected_for_interview"
           /\ r.phase1_date = call[p].current_date
           /\ r.interview_date = call[p].interview_date
           /\ r.status = "interview programmé"
           /\ r.workflow_phase = "phase1"

\* C12: the row a create_application step adds has phase1_status
\* 'pending', workflow_phase 'phase1', status 'en attente', both
\* notification flags 0, no phase-2 decision, no rejection reason and no
\* generated document attached.
C12_NewApplicationDefaults ==
    [][\A a \in (DOMAIN db') \ (DOMAIN db) :
          /\ db'[a].phase1_status = "pending"
          /\ db'[a].workflow_phase = "phase1"
          /\ db'[a].status = "en attente"
          /\ db'[a].phase1_notification_sent = 0
          /\ db'[a].phase2_notification_sent = 0
          /\ db'[a].phase2_status = NULL
          /\ db'[a].rejection_reason = NULL
          /\ db'[a].interview_invitation_pdf = NoFile
          /\ db'[a].acceptance_letter_pdf = NoFile]_vars

\* An application has been created and nothing has been called on it yet.
C12_Witness ==
    /\ ncalls = 0
    /\ \E a \in DOMAIN db :
          /\ db[a].phase1_status = "pending"
          /\ db[a].workflow_phase = "phase1"
          /\ db[a].status = "en attente"

RecordOps ==
    {"mark_notification_sent", "add_interview_notes",
     "save_interview_invitation_pdf", "save_acceptance_letter_pdf",
     "update_application_status", "toggle_favorite"}

\* The step in which process p makes a call that commits at once.
Calls(p, op) ==
    /\ ncalls' # ncalls
    /\ call'[p].pc = "done"
    /\ call'[p].op = op

PhaseFields(row) == <<row.workflow_phase, row.phase1_status, row.phase2_status>>

\* C13: workflow_phase, phase1_status and phase2_status of a stored
\* application change only in the committing step of update_phase1_status
\* or update_phase2_status on that application; the six one-column calls
\* leave the three fields of every application as they were.
C13_PhaseFieldsOnlyByDecisions ==
    [][/\ \A a \in (DOMAIN db) \cap (DOMAIN db') :
             PhaseFields(db'[a]) # PhaseFields(db[a]) =>
                \E p \in Procs :
                    /\ call[p].pc \in {"connected", "rendering"}
                    /\ call[p].op \in {"phase1", "phase2"}
                    /\ call[p].app_id = a
                    /\ call'[p].pc = "done"
       /\ \A p \in Procs, op \in RecordOps :
             Calls(p, op) =>
                /\ DOMAIN db' = DOMAIN db
                /\ \A a \in DOMAIN db : PhaseFields(db'[a]) = PhaseFields(db[a])]_vars

\* The general status of a shortlisted application was overwritten and the
\* application is still shortlisted in phase 1.
C13_Witness ==
    \E p \in Procs :
        /\ call[p].pc = "done"
        /\ call[p].op = "update_application_status"
        /\ call[p].result = "updated"
        /\ call[p].app_id \in DOMAIN db
        /\ db[call[p].app_id].status = "rejetée"
        /\ db[call[p].app_id].phase1_status = "selected_for_interview"
        /\ db[call[p].app_id].workflow_phase = "phase1"

\* C14: mark_notification_sent(id, k) with k = 1 or 2 sets
\* phase{k}_notification_sent of that application to 1 and changes nothing
\* else (no other column, no other application, no file, no verification
\* record); made on a row whose flag is already 1, or made again on its own
\* result, it changes nothing.
C14_MarkNotificationSent ==
    [][\A p \in Procs :
          (Calls(p, "mark_notification_sent") /\ call'[p].phase \in {1, 2}) =>
             LET id == call'[p].app_id
                 k == call'[p].phase
                 sent(row) == IF k = 1 THEN row.phase1_notification_sent
                                       ELSE row.phase2_notification_sent
             IN  /\ files' = files
                 /\ verifications' = verifications
                 /\ id \notin DOMAIN db => db' = db
                 /\ id \in DOMAIN db =>
                      /\ db' = [db EXCEPT ![id] =
                                  IF k = 1 THEN [@ EXCEPT !.phase1_notification_sent = 1]
                                           ELSE [@ EXCEPT !.phase2_notification_sent = 1]]
                      /\ sent(db[id]) = 1 => db' = db
                      /\ NotificationSentSet(db'[id], k) = db'[id]]_vars

\* After at least two calls, the last one marked the phase-1 notification
\* of an application: that flag is 1, the phase-2 flag is still 0.
C14_Witness ==
    \E p \in Procs :
        /\ ncalls >= 2
        /\ call[p].pc = "done"
        /\ call[p].op = "mark_notification_sent"
        /\ call[p].phase = 1
        /\ call[p].result = "updated"
        /\ call[p].app_id \in DOMAIN db
        /\ db[call[p].app_id].phase1_notification_sent = 1
        /\ db[call[p].app_id].phase2_notification_sent = 0

Phase1Fields(row) ==
    <<row.phase1_status, row.phase1_date, row.phase1_notification_sent,
      row.interview_date, row.interview_notes>>

\* C15: the committing step of update_phase2_status leaves
\* acceptance_letter_pdf, interview_invitation_pdf and the phase-1 fields of
\* every application, the files and the verification records as they were;
\* acceptance_letter_pdf of a stored application changes only in a
\* save_acceptance_letter_pdf call on that application.
C15_Phase2TouchesNoDocument ==
    [][/\ \A p \in Procs :
             ( /\ call[p].pc = "connected"
               /\ call[p].op = "phase2"
               /\ call'[p].pc = "done" ) =>
                /\ files' = files
                /\ verifications' = verifications
                /\ DOMAIN db' = DOMAIN db
                /\ \A a \in DOMAIN db :
                      /\ db'[a].acceptance_letter_pdf = db[a].acceptance_letter_pdf
                      /\ db'[a].interview_invitation_pdf = db[a].interview_invitation_pdf
                      /\ Phase1Fields(db'[a]) = Phase1Fields(db[a])
       /\ \A a \in (DOMAIN db) \cap (DOMAIN db') :
             db'[a].acceptance_letter_pdf # db[a].acceptance_letter_pdf =>
                \E p \in Procs :
                    /\ Calls(p, "save_acceptance_letter_pdf")
                    /\ call'[p].app_id = a]_vars

\* A shortlisted application whose convocation is attached was accepted:
\* the convocation is still attached and no acceptance letter is.
C15_Witness ==
    \E p \in Procs :
        /\ Returned(p, "phase2", "accepted")
        /\ db[call[p].app_id].phase2_status = "accepted"
        /\ db[call[p].app_id].phase1_status = "selected_for_interview"
        /\ db[call[p].app_id].interview_invitation_pdf \in files
        /\ db[call[p].app_id].acceptance_letter_pdf = NoFile

UpperAlnum ==
    {"A", "B", "C", "D", "E", "F", "G", "H", "I", "J", "K", "L", "M",
     "N", "O", "P", "Q", "R", "S", "T", "U", "V", "W", "X", "Y", "Z",
     "0", "1", "2", "3", "4", "5", "6", "7", "8", "9"}

WellFormedCode(code) ==
    /\ Len(code) = 16
    /\ \A i \in 1..Len(code) : code[i] \in UpperAlnum

\* C16: every verification code that is bound in the registry or embedded
\* in a convocation written by update_phase1_status has length 16 and only
\* characters of A-Z and 0-9.
C16_CodesAreSixteenAlnum ==
    /\ \A v \in verifications : WellFormedCode(v.verification_code)
    /\ \A f \in files : WellFormedCode(EmbeddedCode(f))

\* C17: no two documents carry the same verification code: two
\* convocations written by update_phase1_status (for the same application
\* on the same day included), two registry records, or a convocation and a
\* registry record of another document, always differ in their code.
C17_CodesAreUnique ==
    /\ \A f \in files, g \in files :
          f # g => EmbeddedCode(f) # EmbeddedCode(g)
    /\ \A v \in verifications, w \in verifications :
          v # w => v.verification_code # w.verification_code
    /\ \A f \in files, v \in verifications :
          v.pdf_path # f => v.verification_code # EmbeddedCode(f)

\* C18: for every convocation update_phase1_status has written there is a
\* verification record that binds the code embedded in it to the
\* application, the document type and the file.
C18_ConvocationIsRegistered ==
    \A f \in files :
        \E v \in verifications :
            /\ v.verification_code = EmbeddedCode(f)
            /\ v.application_id = f[2]
            /\ v.document_type = "interview_invitation"
            /\ v.pdf_path = f
            /\ v.status = "valide"

\* C20: no stored application has phase1_status 'selected_for_interview'
\* with an empty interview_date, or phase1_status 'rejected' with an empty
\* rejection_reason.
C20_RequiredArgumentsStored ==
    \A a \in DOMAIN db :
        /\ db[a].phase1_status = "selected_for_interview" =>
              db[a].interview_date # NULL
        /\ db[a].phase1_status = "rejected" =>
              db[a].rejection_reason # NULL

\* C19: a delete_application(id) step leaves exactly the verification
\* records of the other applications, a delete_job step exactly those of
\* the applications it did not delete, so that no record refers to an
\* application deleted in the step; every other step removes no
\* verification record.
C19_VerificationsRemovedOnlyByCascade ==
    [][LET gone == (DOMAIN db) \ (DOMAIN db')
           deletes == \E p \in Procs : \/ Calls(p, "delete_application")
                                       \/ Calls(p, "delete_job")
       IN  /\ \A v \in verifications' : v.application_id \notin gone
           /\ \A p \in Procs :
                 Calls(p, "delete_application") =>
                    /\ call'[p].app_id \notin DOMAIN db'
                    /\ verifications' =
                          {v \in verifications : v.application_id # call'[p].app_id}
           /\ \A p \in Procs :
                 Calls(p, "delete_job") =>
                    verifications' =
                       {v \in verifications : v.application_id \notin gone}
           /\ ~deletes => verifications \subseteq verifications']_vars

\* delete_application found verification records of the application and
\* the application existed: both are gone.
C19_Witness ==
    \E p \in Procs :
        /\ call[p].pc = "done"
        /\ call[p].op = "delete_application"
        /\ call[p].result = "verifications_deleted"
        /\ seq >= call[p].app_id
        /\ call[p].app_id \notin DOMAIN db
        /\ \A v \in verifications : v.application_id # call[p].app_id

WorkflowFields(row) ==
    <<row.status, row.workflow_phase, row.phase1_status, row.phase1_date,
      row.interview_date, row.phase2_status, row.phase2_date,
      row.rejection_reason>>

\* The row a phase-decision call leaves when it runs alone on row.
AloneOn(row, c) ==
    IF c.op = "phase1" /\ c.decision = "selected_for_interview"
        THEN Phase1SelectedSet(row, c.decision, c.current_date, c.interview_date)
    ELSE IF c.op = "phase1" /\ c.decision = "rejected"
        THEN Phase1RejectedSet(row, c.decision, c.current_date, c.rejection_reason)
    ELSE IF c.op = "phase2" /\ c.decision = "accepted"
        THEN Phase2AcceptedSet(row, c.decision, c.current_date)
    ELSE IF c.op = "phase2" /\ c.decision = "rejected"
        THEN Phase2RejectedSet(row, c.decision, c.current_date, c.rejection_reason)
    ELSE row

\* C11: the stored workflow fields are those of running the calls one
\* after the other in the order in which they end: every phase-decision
\* call that runs to its end, whatever the other connection does meanwhile,
\* ends with the workflow fields it would leave when run alone on the row
\* committed just before.
C11_CallsTakeEffectInSomeOrder ==
    [][\A p \in Procs :
          ( /\ call[p].pc \in {"connected", "rendering"}
            /\ call'[p].pc = "done"
            /\ call'[p].result # "interrupted"
            /\ call[p].app_id \in DOMAIN db ) =>
             WorkflowFields(db'[call[p].app_id]) =
                WorkflowFields(AloneOn(db[call[p].app_id], call[p]))]_vars

Renderers == {"generate_interview_invitation_pdf", "generate_acceptance_letter_pdf"}
FilenameHelpers == {"generate_interview_invitation_filename", "generate_acceptance_letter_filename"}

\* A renderer was called and wrote its document.
Rendered == pdf.fn \in Renderers /\ ~pdf.result.raised

\* C21: a document either renderer wrote with a non-empty verification code
\* carries on every page the image that scans as
\* base_url + '/verify/' + code and the code itself; one written without a
\* code carries neither on any page.
C21_EveryPageCarriesTheCode ==
    Rendered =>
        /\ Len(pdf.result.pages) >= 1
        /\ \A i \in DOMAIN pdf.result.pages :
              LET page == pdf.result.pages[i] IN
              IF pdf.verification_code # NoCode
                  THEN /\ page.qr = <<[scans_as |->
                                <<pdf.base_url, "/verify/", pdf.verification_code>>]>>
                       /\ page.code_text = <<pdf.verification_code>>
                  ELSE /\ page.qr = <<>>
                       /\ page.code_text = <<>>

\* An acceptance letter of two pages was written with a code.
C21_Witness ==
    /\ Rendered
    /\ pdf.fn = "generate_acceptance_letter_pdf"
    /\ pdf.verification_code # NoCode
    /\ Len(pdf.result.pages) = 2

\* C22 as stated: an interview invitation for a complete candidate whose
\* interview date is any value that does not parse (None included) is
\* written, with the raw value in the date cell and 'À confirmer' in the
\* time cell.
C22_AnyUnparsedDateIsRendered ==
    ( /\ pdf.fn = "generate_interview_invitation_pdf"
      /\ pdf.application_data = FullData
      /\ pdf.interview_date \notin DOMAIN Strptime ) =>
        /\ ~pdf.result.raised
        /\ pdf.result.date_cell = pdf.interview_date
        /\ pdf.result.time_cell = "À confirmer"

\* C22 amended: the same for every interview date that is a string (the
\* empty one included) and does not parse; with None the call raises.
C22_UnparsedDateStringIsRendered ==
    ( /\ pdf.fn = "generate_interview_invitation_pdf"
      /\ pdf.application_data = FullData
      /\ pdf.interview_date \notin DOMAIN Strptime
      /\ pdf.interview_date # NULL ) =>
        /\ ~pdf.result.raised
        /\ pdf.result.date_cell = pdf.interview_date
        /\ pdf.result.time_cell = "À confirmer"

\* An invitation was rendered with a date in words.
C22_Witness ==
    /\ pdf.fn = "generate_interview_invitation_pdf"
    /\ pdf.application_data = FullData
    /\ pdf.interview_date = "le 15 octobre vers 14h"
    /\ ~pdf.result.raised
    /\ pdf.result.date_cell = "le 15 octobre vers 14h"

\* The dictionary lacks a required field; the job title counts as given
\* under either of its keys.
LacksRequiredField(d) ==
    \/ (RequiredFields \ {"job_title"}) \ DOMAIN d # {}
    \/ {"job_title", "selected_job_title"} \cap DOMAIN d = {}

\* C23: a renderer called with a dictionary that lacks one of the required
\* fields raises and writes nothing.
C23_MissingFieldRaises ==
    ( /\ pdf.fn \in Renderers
      /\ LacksRequiredField(pdf.application_data) ) =>
        pdf.result.raised

NameChars ==
    AsciiLetters \cup {DigitChars[i] : i \in DOMAIN DigitChars} \cup {"_", "-"}

\* C24: the name a filename helper returns is made of the label of the
\* document type, the cleaned candidate name, the application id and the
\* timestamp, and the cleaned name has only characters of A-Z, a-z, 0-9,
\* '_' and '-'.
C24_FilenameIsClean ==
    pdf.fn \in FilenameHelpers =>
        /\ pdf.result.label \in {"Convocation_Entretien", "Lettre_Acceptation"}
        /\ pdf.result.application_id \in AppIds
        /\ \A i \in DOMAIN pdf.result.clean_name :
              pdf.result.clean_name[i] \in NameChars

WorkflowTuple(row) ==
    <<row.workflow_phase, row.phase1_status, row.phase2_status, row.status>>

FiveTuples ==
    { <<"phase1", "pending", NULL, "en attente">>,
      <<"phase1", "selected_for_interview", NULL, "interview programmé">>,
      <<"completed", "rejected", NULL, "rejetée">>,
      <<"completed", "selected_for_interview", "accepted", "acceptée">>,
      <<"completed", "selected_for_interview", "rejected", "rejetée">> }

\* Decisions an application shows: one when phase 1 is decided, one more
\* when phase 2 is decided.
DecisionsShown(row) ==
    (IF row.phase1_status # "pending" THEN 1 ELSE 0)
        + (IF row.phase2_status # NULL THEN 1 ELSE 0)

\* C25: with a caller that keeps to the workflow, every stored application
\* is in one of the five tuples at all times; every decision that is
\* committed on an application raises the number of decisions it shows by
\* one and no step lowers it, so that an application receives as many
\* decisions as it shows, at most two.
C25_FiveTuplesTwoDecisions ==
    /\ [](\A a \in DOMAIN db : WorkflowTuple(db[a]) \in FiveTuples)
    /\ [][/\ \A p \in Procs :
                ( /\ call[p].pc \in {"connected", "rendering"}
                  /\ call'[p].pc = "done"
                  /\ call'[p].result \in {"updated", "pdf_attached", "pdf_failed"} ) =>
                   DecisionsShown(db'[call[p].app_id]) =
                      DecisionsShown(db[call[p].app_id]) + 1
          /\ \A a \in (DOMAIN db) \cap (DOMAIN db') :
                /\ DecisionsShown(db'[a]) >= DecisionsShown(db[a])
                /\ DecisionsShown(db'[a]) <= 2]_vars

\* An application was shortlisted and then accepted.
C25_Witness ==
    \E p \in Procs :
        /\ Returned(p, "phase2", "accepted")
        /\ WorkflowTuple(db[call[p].app_id]) =
              <<"completed", "selected_for_interview", "accepted", "acceptée">>
        /\ DecisionsShown(db[call[p].app_id]) = 2

\* C26: a stored application has a rejection reason only while its status
\* is 'rejetée'.
C26_ReasonOnlyWhileRejected ==
    \A a \in DOMAIN db :
        db[a].rejection_reason # NULL => db[a].status = "rejetée"

\* The decision of the call of p is none the called function has a branch
\* for.
OutsideDomain(c) ==
    \/ c.op = "phase1" /\ c.decision \notin {"selected_for_interview", "rejected"}
    \/ c.op = "phase2" /\ c.decision \notin {"accepted", "rejected"}

\* C27: a phase-decision call whose decision has no branch changes no
\* application, file or verification record in any of its steps and
\* returns normally; so does mark_notification_sent with a phase other
\* than 1 and 2.
C27_OutsideDomainIsNoOp ==
    [][\A p \in Procs :
          /\ ( /\ call'[p] # call[p]
               /\ call'[p].op \in {"phase1", "phase2"}
               /\ OutsideDomain(call'[p]) ) =>
                  /\ db' = db
                  /\ files' = files
                  /\ verifications' = verifications
                  /\ call'[p].pc = "done" => call'[p].result = "no_branch"
          /\ ( /\ Calls(p, "mark_notification_sent")
               /\ call'[p].phase \notin {1, 2} ) =>
                  /\ db' = db
                  /\ files' = files
                  /\ verifications' = verifications
                  /\ call'[p].result = "no_branch"]_vars

\* mark_notification_sent was called with phase 3 on a stored application
\* none of whose flags is set.
C27_Witness ==
    \E p \in Procs :
        /\ call[p].pc = "done"
        /\ call[p].op = "mark_notification_sent"
        /\ call[p].phase = 3
        /\ call[p].result = "no_branch"
        /\ call[p].app_id \in DOMAIN db
        /\ db[call[p].app_id].phase1_notification_sent = 0
        /\ db[call[p].app_id].phase2_notification_sent = 0

\* C28: a step of update_phase1_status or update_phase2_status whose id
\* matches no stored application, and a mark_notification_sent call with
\* such an id, leave the applications (none is created, none changed), the
\* files and the verification records as they were, and the call returns
\* normally with nothing attached.
C28_UnknownIdIsNoOp ==
    [][\A p \in Procs :
          /\ ( /\ call'[p] # call[p]
               /\ call'[p].op \in {"phase1", "phase2"}
               /\ call'[p].app_id \notin DOMAIN db ) =>
                  /\ db' = db
                  /\ files' = files
                  /\ verifications' = verifications
                  /\ call'[p].pc \in {"connected", "done"}
                  /\ call'[p].pc = "done" => call'[p].result \in {"no_row", "no_branch"}
          /\ ( /\ Calls(p, "mark_notification_sent")
               /\ call'[p].app_id \notin DOMAIN db ) =>
                  /\ db' = db
                  /\ files' = files
                  /\ verifications' = verifications
                  /\ call'[p].result \in {"no_row", "no_branch"}]_vars

\* update_phase1_status(id, 'selected_for_interview', date) returned for an
\* id of no application while another application is stored: that one is
\* as it was created and no file was written.
C28_Witness ==
    \E p \in Procs :
        /\ call[p].pc = "done"
        /\ call[p].op = "phase1"
        /\ call[p].decision = "selected_for_interview"
        /\ call[p].interview_date # NULL
        /\ call[p].result = "no_row"
        /\ call[p].app_id \notin DOMAIN db
        /\ \E a \in DOMAIN db : db[a].phase1_status = "pending"
        /\ files = {}

====
